---- MODULE Spec2Model ----
(***************************************************************************)
(* The balloon subsystem of the portfolio page (src/src/App.tsx):          *)
(* Portfolio's balloonsOn / muted flags, the conditionally mounted         *)
(* BalloonsLayer (live list, idRef, spawn interval), the motion.button     *)
(* handlers (onAnimationComplete, onClick) and the useAudioPop hook.       *)
(*                                                                         *)
(* The fields size, x, floatSec and sway of a balloon and the results of   *)
(* Math.random() are IEEE 754 doubles.  A double d with 0 <= d < 512 is    *)
(* written as the five digits, lowest first and in base 2^13, of the       *)
(* integer d * 2^53; sums and products are rounded as the doubles are.     *)
(***************************************************************************)
EXTENDS Integers, Sequences, FiniteSets, Bags, TLC

\* ---------------------------------------------------------------- bounds
\* Spec: short runs with many button events
MaxTicks == 1         \* interval firings explored per mounted layer
MaxClicks == 2        \* balloon clicks explored in one page session
MaxTarget == 1        \* button events are explored for the balloons with id 1..MaxTarget
MaxMounts == 2        \* mounts of BalloonsLayer explored in one page session
MaxEffort == 4        \* mounts, interval firings and clicks explored in one run, together
\* SpecCap: one long-lived layer, up to and beyond the population cap
MaxCapTicks == 26     \* interval firings explored for the layer
MaxCapClicks == 1     \* balloon clicks explored
MaxCapTarget == 2     \* button events are explored for the balloons with id 1..MaxCapTarget
\* SpecCall: randomBalloon on its own
MaxCallId == 2        \* ids given to randomBalloon: 1..MaxCallId
\* SpecRemove: the filter updater on its own
MaxListLen == 4       \* live lists: the sublists of the first MaxListLen balloons of a burst

\* ------------------------------------------------------ program constants
BurstSize == 12       \* Array.from({ length: 12 }, ...)
CapLimit == 35        \* b.length > 35 ? b : ...
Volume == 600         \* useAudioPop(muted ? 0 : 0.06), in units of 1/10000
MinGain == 1          \* Math.max(0.0001, volRef.current), in units of 1/10000

VARIABLES
    balloonsOn,   \* Portfolio: useState(true)
    muted,        \* Portfolio: useState(false)
    mounts,       \* number of times BalloonsLayer has been mounted (0: page not rendered yet)
    mounted,      \* BalloonsLayer is in the tree
    balloons,     \* BalloonsLayer: useState<Balloon[]>([])
    idRef,        \* BalloonsLayer: useRef(1)
    spawn,        \* number of running setInterval timers
    exiting,      \* ids of buttons AnimatePresence still shows (exit transition)
    volRef,       \* useAudioPop: volRef.current of the mounted layer
    ctxRef,       \* useAudioPop: ctxRef.current of the mounted layer (0: null, else index in contexts)
    contexts,     \* state of every AudioContext created in the session, in creation order
    pending,      \* calls of pop() suspended at "await ctx.resume()", with the onClick that awaits them
    microtasks,   \* onClick handlers whose "await pop()" has settled, in the order they will go on
    ticks,        \* interval firings since the layer was mounted
    clicks,       \* balloon clicks so far (session)
    assigned,     \* history: id -> number of balloons created with that id (session)
    synthCalls,   \* history: id -> number of pop() calls for that balloon (mounted layer)
    removedBy,    \* history: id -> the handlers whose filter took that balloon out (mounted layer)
    lastGain,     \* history: the gain the last pop() of the mounted layer gave its GainNode (0: none yet)
    rejections,   \* history: number of promises returned by pop() that were rejected (session)
    callArgs,     \* a function called on its own: its arguments
    callResult    \* a function called on its own: <<>>, or what it returned

vars == <<balloonsOn, muted, mounts, mounted, balloons, idRef, spawn, exiting,
          volRef, ctxRef, contexts, pending, microtasks, ticks, clicks,
          assigned, synthCalls, removedBy, lastGain, rejections,
          callArgs, callResult>>

pageVars == <<balloonsOn, muted>>
audioVars == <<volRef, ctxRef, contexts, pending>>
histVars == <<assigned, synthCalls, removedBy>>
soundVars == <<lastGain, rejections>>
callVars == <<callArgs, callResult>>

\* ------------------------------------------------------------- doubles
\* base of the digits
Digit == 2 ^ 13

\* the double of the integer n, 0 <= n < 512 (2^53 = 2 * Digit^4)
Whole(n) == <<0, 0, 0, 0, 2 * n>>

RECURSIVE Carry(_, _, _)
\* the digits of the number whose i-th digit is x[i] + (carry) c, from digit i on
Carry(x, i, c) ==
    IF i > Len(x)
       THEN <<>>
       ELSE <<(x[i] + c) % Digit>> \o Carry(x, i + 1, (x[i] + c) \div Digit)

RECURSIVE HighBit(_)
\* the largest power of two that is at most n (n >= 1)
HighBit(n) == IF n < 2 THEN 1 ELSE 2 * HighBit(n \div 2)

\* the double nearest to the number x (ties to the even significand): a
\* number of [2^e, 2^(e+1)), e >= 0, keeps 52 binary places behind its
\* leading bit; below 1 every multiple of 2^-53 is a double
RoundDouble(x) ==
    IF x[5] < 2
       THEN x
       ELSE LET ulp == HighBit(x[5])
                q == x[1] \div ulp
                rest == x[1] % ulp
                up == 2 * rest > ulp \/ (2 * rest = ulp /\ q % 2 = 1)
            IN  Carry([x EXCEPT ![1] = (q + (IF up THEN 1 ELSE 0)) * ulp], 1, 0)

\* the double x * c for an integer c, 0 <= c < 512
Times(x, c) == RoundDouble(Carry([i \in 1..Len(x) |-> x[i] * c], 1, 0))

\* the double x + y
Plus(x, y) == RoundDouble(Carry([i \in 1..Len(x) |-> x[i] + y[i]], 1, 0))

\* Math.floor(x), as an integer
Floor(x) == x[5] \div 2

RECURSIVE LessFrom(_, _, _)
\* x < y, comparing from digit i down
LessFrom(x, y, i) ==
    IF i = 0 THEN FALSE
    ELSE IF x[i] # y[i] THEN x[i] < y[i]
    ELSE LessFrom(x, y, i - 1)

AtMost(x, y) == ~LessFrom(y, x, Len(x))

\* ----------------------------------------------------------- Math.random
\* results of Math.random(): 0, the smallest positive result 2^-52, the
\* middle 0.5, the largest results 1 - 2^-52 (V8) and 1 - 2^-53 (engines
\* that use 53 bits), and the first five results of one run of V8
RandomZero == <<0, 0, 0, 0, 0>>
RandomTiny == <<2, 0, 0, 0, 0>>
RandomHalf == <<0, 0, 0, 0, 1>>
RandomTop == <<8190, 8191, 8191, 8191, 1>>
RandomTop53 == <<8191, 8191, 8191, 8191, 1>>
RandomRun1 == <<7918, 1308, 6617, 2411, 0>>      \* 0.147205063401058
RandomRun2 == <<7306, 1152, 3365, 4491, 0>>      \* 0.2741339589710077
RandomRun3 == <<2644, 361, 4152, 6349, 1>>       \* 0.8875431421705096
RandomRun4 == <<6122, 7932, 3445, 7833, 1>>      \* 0.9781140533711981
RandomRun5 == <<582, 5772, 3425, 133, 0>>        \* 0.008143199269462498

RandomResults ==
    {RandomZero, RandomTiny, RandomRun1, RandomHalf, RandomTop, RandomTop53}

DrawsPerBalloon == 5

\* the five results of the calls of Math.random() in one randomBalloon, in
\* the order the function makes them (size, x, hue, floatSec, sway): the
\* five of a run, and all five the largest result of V8
RunDraws == <<RandomRun1, RandomRun2, RandomRun3, RandomRun4, RandomRun5>>
TopDraws == [k \in 1..DrawsPerBalloon |-> RandomTop]

\* outcomes of the random source explored for one balloon
ExploredDraws == {RunDraws, TopDraws}

\* outcomes explored for the 60 calls of a burst: the two of ExploredDraws in
\* turns, from balloon to balloon, starting with either
BurstDraws ==
    {[i \in 1..BurstSize |-> IF i % 2 = 1 THEN t ELSE u] :
        <<t, u>> \in {<<RunDraws, TopDraws>>, <<TopDraws, RunDraws>>}}

\* ------------------------------------------------------------ randomBalloon
\* a balloon placed anywhere across the width: x: Math.random() * 100
randomBalloonNoMargin(idSeed, r) ==
    [id       |-> idSeed,
     x        |-> Times(r[2], 100),
     size     |-> Plus(Whole(38), Times(r[1], 34)),
     hue      |-> Floor(Times(r[3], 360)),
     floatSec |-> Plus(Whole(10), Times(r[4], 10)),
     sway     |-> Plus(Whole(20), Times(r[5], 60))]

\* r = <<r1, .., r5>>: the five Math.random() results, in the order the
\* function evaluates them (size, x, hue, floatSec, sway)
randomBalloon(idSeed, r) ==
    [id       |-> idSeed,
     x        |-> Plus(Times(r[2], 96), Whole(2)),
     size     |-> Plus(Whole(38), Times(r[1], 34)),
     hue      |-> Floor(Times(r[3], 360)),
     floatSec |-> Plus(Whole(10), Times(r[4], 10)),
     sway     |-> Plus(Whole(20), Times(r[5], 60))]

\* a counter that is read but never advanced: randomBalloon(idRef.current)
StuckIdRef(n) == n

\* idRef.current++ : the value the counter holds after one use
NextIdRef(n) == n + 1

RECURSIVE IdAfter(_, _)
IdAfter(n, k) == IF k = 0 THEN n ELSE IdAfter(NextIdRef(n), k - 1)

\* a burst that is one balloon short: Array.from({ length: 11 }, ...)
BurstShort(idr, ds) ==
    [i \in 1..(BurstSize - 1) |-> randomBalloon(IdAfter(idr, i - 1), ds[i])]

\* Array.from({ length: 12 }, () => randomBalloon(idRef.current++)), where
\* ds[i] holds the results of Math.random() in the i-th call of randomBalloon
Burst(idr, ds) ==
    [i \in 1..BurstSize |-> randomBalloon(IdAfter(idr, i - 1), ds[i])]

\* b.length > 35 : the interval callback keeps the list as it is
AtCap(b) == Len(b) > CapLimit

Ids(b) == {b[i].id : i \in 1..Len(b)}

\* removal that takes the id for a position: b.splice(id - 1, 1)
RemoveByIndex(b, id) ==
    IF id \in 1..Len(b)
       THEN SubSeq(b, 1, id - 1) \o SubSeq(b, id + 1, Len(b))
       ELSE b

\* removal by position, b.splice(b.findIndex((x) => x.id === id), 1): an
\* absent id gives index -1, and splice(-1, 1) takes the last balloon out
RemoveSplice(b, id) ==
    IF id \in Ids(b)
       THEN SelectSeq(b, LAMBDA x : x.id # id)
       ELSE SubSeq(b, 1, Len(b) - 1)

\* a removal that keeps the balloon and shrinks it to nothing:
\* b.map((x) => x.id === id ? { ...x, size: 0 } : x)
RemoveShrink(b, id) ==
    [i \in 1..Len(b) |-> IF b[i].id = id THEN [b[i] EXCEPT !.size = Whole(0)] ELSE b[i]]

\* b.filter((x) => x.id !== id)
Remove(b, id) == SelectSeq(b, LAMBDA x : x.id # id)

\* a volume that does not look at the flag: useAudioPop(0.06)
VolumeIgnoresMute(m) == Volume

\* muted ? 0 : 0.06
VolumeOf(m) == IF m THEN 0 ELSE Volume

\* Math.max(0.0001, volRef.current)
GainOf(v) == IF v > MinGain THEN v ELSE MinGain

\* ----------------------------------------------------------- history helpers
CountOf(f, k) == IF k \in DOMAIN f THEN f[k] ELSE 0

\* one more balloon created with each id of the list bs
Assign(f, bs) ==
    [k \in DOMAIN f \cup Ids(bs) |-> CountOf(f, k) + (IF k \in Ids(bs) THEN 1 ELSE 0)]

Bump(f, k) == [j \in DOMAIN f \cup {k} |-> CountOf(f, j) + (IF j = k THEN 1 ELSE 0)]

CausesOf(f, k) == IF k \in DOMAIN f THEN f[k] ELSE {}

AddCause(f, k, c) == [j \in DOMAIN f \cup {k} |-> CausesOf(f, j) \cup (IF j = k THEN {c} ELSE {})]

\* ------------------------------------------------------------------- Init
\* the page before its first render
InitPage ==
    /\ balloonsOn = TRUE
    /\ muted = FALSE
    /\ mounts = 0
    /\ mounted = FALSE
    /\ balloons = <<>>
    /\ idRef = 1
    /\ spawn = 0
    /\ exiting = {}
    /\ volRef = 0
    /\ ctxRef = 0
    /\ contexts = <<>>
    /\ pending = EmptyBag
    /\ microtasks = <<>>
    /\ ticks = 0
    /\ clicks = 0
    /\ assigned = <<>>
    /\ synthCalls = <<>>
    /\ removedBy = <<>>
    /\ lastGain = 0
    /\ rejections = 0

Init ==
    /\ InitPage
    /\ callArgs = <<>>
    /\ callResult = <<>>

\* BalloonsLayer mounts with enabled = true: fresh state and refs, then the
\* effects run (volRef, burst, setInterval); ds: the results of Math.random()
\* in the burst
MountLayer(ds) ==
    /\ mounts' = mounts + 1
    /\ mounted' = TRUE
    /\ balloons' = <<>> \o Burst(1, ds)
    /\ idRef' = IdAfter(1, BurstSize)
    /\ spawn' = spawn + 1
    /\ exiting' = {}
    /\ ticks' = 0
    /\ volRef' = VolumeOf(muted)
    /\ ctxRef' = 0
    /\ assigned' = Assign(assigned, balloons')
    /\ synthCalls' = <<>>
    /\ removedBy' = <<>>
    /\ lastGain' = 0
    /\ UNCHANGED <<contexts, pending, microtasks, rejections, callVars>>

\* a layer whose effect returns no cleanup: the interval keeps running after
\* the layer has left the tree
UnmountLayerKeepsTimer ==
    /\ mounted' = FALSE
    /\ balloons' = <<>>
    /\ idRef' = 1
    /\ exiting' = {}
    /\ volRef' = 0
    /\ ctxRef' = 0
    /\ synthCalls' = <<>>
    /\ removedBy' = <<>>
    /\ lastGain' = 0
    /\ UNCHANGED <<mounts, spawn, ticks, contexts, pending, microtasks, assigned,
                   rejections, callVars>>

\* BalloonsLayer leaves the tree: effect cleanup (clearInterval); its state and
\* refs are dropped
UnmountLayer ==
    /\ mounted' = FALSE
    /\ balloons' = <<>>
    /\ idRef' = 1
    /\ spawn' = spawn - 1
    /\ exiting' = {}
    /\ volRef' = 0
    /\ ctxRef' = 0
    /\ synthCalls' = <<>>
    /\ removedBy' = <<>>
    /\ lastGain' = 0
    /\ UNCHANGED <<mounts, ticks, contexts, pending, microtasks, assigned, rejections,
                   callVars>>

\* first render of Portfolio: balloonsOn starts true, so the layer mounts
PageLoad(ds) ==
    /\ mounts = 0
    /\ MountLayer(ds)
    /\ UNCHANGED <<pageVars, clicks>>

\* "Toggle balloons" button: setBalloonsOn((v) => !v), then the re-render; a
\* click is a task of its own: it starts when no microtask is left
ToggleBalloons(ds) ==
    /\ mounts > 0
    /\ microtasks = <<>>
    /\ balloonsOn' = ~balloonsOn
    /\ IF balloonsOn
          THEN UnmountLayer
          ELSE MountLayer(ds)
    /\ UNCHANGED <<muted, clicks>>

\* "Sound" button: setMuted((m) => !m); a mounted layer re-renders and the
\* effect of useAudioPop stores the new volume
ToggleMuted ==
    /\ mounts > 0
    /\ microtasks = <<>>
    /\ muted' = ~muted
    /\ volRef' = IF mounted THEN VolumeOf(muted') ELSE volRef
    /\ UNCHANGED <<balloonsOn, mounts, mounted, balloons, idRef, spawn, exiting,
                   ctxRef, contexts, pending, microtasks, ticks, clicks, histVars,
                   soundVars, callVars>>

\* an interval callback that puts the new balloon in front:
\* [randomBalloon(idRef.current++), ...b]
SpawnTickPrepend(r) ==
    /\ spawn > 0
    /\ microtasks = <<>>
    /\ ticks' = ticks + 1
    /\ IF AtCap(balloons)
          THEN UNCHANGED <<balloons, idRef, assigned>>
          ELSE /\ balloons' = <<randomBalloon(idRef, r)>> \o balloons
               /\ idRef' = NextIdRef(idRef)
               /\ assigned' = Bump(assigned, idRef)
    /\ UNCHANGED <<pageVars, mounts, mounted, spawn, exiting, audioVars, microtasks,
                   clicks, synthCalls, removedBy, soundVars, callVars>>

\* an interval callback that appends to the list of the render in which the
\* effect ran (the empty list) instead of the latest one:
\* setBalloons([...balloons, randomBalloon(idRef.current++)])
SpawnTickStale(r) ==
    /\ spawn > 0
    /\ microtasks = <<>>
    /\ ticks' = ticks + 1
    /\ balloons' = Append(<<>>, randomBalloon(idRef, r))
    /\ idRef' = NextIdRef(idRef)
    /\ assigned' = Bump(assigned, idRef)
    /\ UNCHANGED <<pageVars, mounts, mounted, spawn, exiting, audioVars, microtasks,
                   clicks, synthCalls, removedBy, soundVars, callVars>>

\* an interval callback that stops its interval when it finds the list at the
\* cap: if (b.length > 35) clearInterval(spawn)
SpawnTickStopsAtCap(r) ==
    /\ spawn > 0
    /\ microtasks = <<>>
    /\ ticks' = ticks + 1
    /\ IF AtCap(balloons)
          THEN /\ spawn' = spawn - 1
               /\ UNCHANGED <<balloons, idRef, assigned>>
          ELSE /\ balloons' = Append(balloons, randomBalloon(idRef, r))
               /\ idRef' = NextIdRef(idRef)
               /\ assigned' = Bump(assigned, idRef)
               /\ spawn' = spawn
    /\ UNCHANGED <<pageVars, mounts, mounted, exiting, audioVars, microtasks,
                   clicks, synthCalls, removedBy, soundVars, callVars>>

\* the setInterval callback fires, a task of its own; r: the results of
\* Math.random() in randomBalloon, if it is called
SpawnTick(r) ==
    /\ spawn > 0
    /\ microtasks = <<>>
    /\ ticks' = ticks + 1
    /\ IF AtCap(balloons)
          THEN UNCHANGED <<balloons, idRef, assigned>>
          ELSE /\ balloons' = Append(balloons, randomBalloon(idRef, r))
               /\ idRef' = NextIdRef(idRef)
               /\ assigned' = Bump(assigned, idRef)
    /\ UNCHANGED <<pageVars, mounts, mounted, spawn, exiting, audioVars, microtasks,
                   clicks, synthCalls, removedBy, soundVars, callVars>>

\* a filter that only the completion handler applies ("only remove if balloon
\* reached the top naturally (not clicked)")
RemoveOnlyOnComplete(id, cause) ==
    /\ balloons' = (IF cause = "complete" THEN Remove(balloons, id) ELSE balloons)
    /\ IF balloons' # balloons
          THEN /\ exiting' = exiting \cup {id}
               /\ removedBy' = AddCause(removedBy, id, cause)
          ELSE UNCHANGED <<exiting, removedBy>>

\* setBalloons((b) => b.filter((x) => x.id !== id)) issued by handler `cause`
\* of the mounted layer; a button whose balloon left the list plays its exit
\* transition
RemoveRequest(id, cause) ==
    /\ balloons' = Remove(balloons, id)
    /\ IF balloons' # balloons
          THEN /\ exiting' = exiting \cup {id}
               /\ removedBy' = AddCause(removedBy, id, cause)
          ELSE UNCHANGED <<exiting, removedBy>>

\* a completion handler that also silences the page: setMuted(true)
AnimationCompleteMutes(id) ==
    /\ mounted
    /\ microtasks = <<>>
    /\ id \in Ids(balloons)
    /\ RemoveRequest(id, "complete")
    /\ muted' = TRUE
    /\ UNCHANGED <<balloonsOn, mounts, mounted, idRef, spawn, audioVars, microtasks, ticks,
                   clicks, assigned, synthCalls, soundVars, callVars>>

\* onAnimationComplete of the button of balloon id: the ascent (or a gesture
\* animation) of a live balloon has finished
AnimationComplete(id) ==
    /\ mounted
    /\ microtasks = <<>>
    /\ id \in Ids(balloons)
    /\ RemoveRequest(id, "complete")
    /\ UNCHANGED <<pageVars, mounts, mounted, idRef, spawn, audioVars, microtasks, ticks,
                   clicks, assigned, synthCalls, soundVars, callVars>>

\* the exit transition of a removed button finishes: onAnimationComplete runs
\* once more and AnimatePresence drops the button
ExitComplete(id) ==
    /\ mounted
    /\ microtasks = <<>>
    /\ id \in exiting
    /\ balloons' = Remove(balloons, id)
    /\ exiting' = exiting \ {id}
    /\ UNCHANGED <<pageVars, mounts, mounted, idRef, spawn, audioVars, microtasks, ticks,
                   clicks, histVars, soundVars, callVars>>

\* ------------------------------------------------------------- useAudioPop
\* new AudioContext(): the constructor throws, or the context starts
\* suspended or running
CtorOutcomes == {"throw", "suspended", "running"}

\* lines 24-53 of pop(): the graph is built and started, or a call throws
\* before the gain is set (line 27), or after it
GraphOutcomes == {"ok", "throwBeforeGain", "throwAfterGain"}

\* ctx.resume(): the promise resolves or rejects
ResumeOutcomes == {"resolve", "reject"}

\* gain.gain.setValueAtTime(Math.max(0.0001, volRef.current), now), reached
\* unless a call before it threw
GainAfterGraph(prev, g) == IF g = "throwBeforeGain" THEN prev ELSE GainOf(volRef)

\* pop() without its try / catch: a failure rejects the promise it returns
PopPromiseNoCatch(failed) == IF failed THEN "rejected" ELSE "fulfilled"

\* async () => { try { ... } catch { /* noop */ } }: the promise pop() returns
PopPromise(failed) == "fulfilled"

\* the rejected promises of pop() so far, after one more promise has settled
Rejected(n, failed) == IF PopPromise(failed) = "rejected" THEN n + 1 ELSE n

\* the onClick handler of the button of balloon id in the layer that was
\* mounted gen-th, suspended at "await pop()"
Handler(gen, id) == [gen |-> gen, id |-> id]

\* what the onClick handler does once "await pop()" has returned or thrown,
\* for the layer that was mounted `gen`-th: setBalloons of a layer that is
\* gone is ignored
AfterPop(gen, id) ==
    IF mounted /\ gen = mounts
       THEN RemoveRequest(id, "pop")
       ELSE UNCHANGED <<balloons, exiting, removedBy>>

\* onClick of the button of balloon id (live, or still shown while exiting),
\* a task of its own: the handler calls pop(), which runs until it returns
\* or waits for ctx.resume(), and gives way at "await pop()"
Click(id) ==
    /\ mounted
    /\ microtasks = <<>>
    /\ id \in Ids(balloons) \cup exiting
    /\ clicks' = clicks + 1
    /\ synthCalls' = Bump(synthCalls, id)
    /\ \E c \in CtorOutcomes, g \in GraphOutcomes :
          /\ IF ctxRef # 0
                THEN c = "running" /\ UNCHANGED <<ctxRef, contexts>>
                ELSE IF c = "throw"
                        THEN UNCHANGED <<ctxRef, contexts>>
                        ELSE /\ contexts' = Append(contexts, c)
                             /\ ctxRef' = Len(contexts')
          /\ IF ctxRef' = 0
                THEN \* the constructor threw: pop() is over
                     /\ g = "ok"
                     /\ rejections' = Rejected(rejections, TRUE)
                     /\ microtasks' = Append(microtasks, Handler(mounts, id))
                     /\ UNCHANGED <<pending, lastGain>>
                ELSE IF contexts'[ctxRef'] = "suspended"
                        THEN \* await ctx.resume()
                             /\ g = "ok"
                             /\ pending' = pending (+)
                                    SetToBag({[gen |-> mounts, id |-> id, ctx |-> ctxRef']})
                             /\ UNCHANGED <<microtasks, lastGain, rejections>>
                        ELSE /\ lastGain' = GainAfterGraph(lastGain, g)
                             /\ rejections' = Rejected(rejections, g # "ok")
                             /\ microtasks' = Append(microtasks, Handler(mounts, id))
                             /\ UNCHANGED pending
    /\ UNCHANGED <<pageVars, mounts, mounted, balloons, idRef, spawn, exiting, volRef,
                   ticks, assigned, removedBy, callVars>>

\* the ctx.resume() a suspended pop() waits for settles and pop() runs to its
\* end; the handler that awaits this pop() goes on after the handlers that
\* wait already
ResumeSettles(p) ==
    /\ BagIn(p, pending)
    /\ pending' = pending (-) SetToBag({p})
    /\ \E r \in ResumeOutcomes, g \in GraphOutcomes :
          /\ IF r = "resolve"
                THEN /\ contexts' = [contexts EXCEPT ![p.ctx] = "running"]
                     /\ lastGain' = IF mounted /\ p.gen = mounts
                                       THEN GainAfterGraph(lastGain, g)
                                       ELSE lastGain
                ELSE /\ g = "ok"
                     /\ UNCHANGED <<contexts, lastGain>>
          /\ rejections' = Rejected(rejections, r = "reject" \/ g # "ok")
    /\ microtasks' = Append(microtasks, Handler(p.gen, p.id))
    /\ UNCHANGED <<pageVars, mounts, mounted, balloons, idRef, spawn, exiting, volRef,
                   ctxRef, ticks, clicks, histVars, callVars>>

\* the first handler that waits goes on after its "await pop()":
\* setBalloons((prev) => prev.filter((x) => x.id !== bl.id))
ClickContinues ==
    /\ microtasks # <<>>
    /\ AfterPop(Head(microtasks).gen, Head(microtasks).id)
    /\ microtasks' = Tail(microtasks)
    /\ UNCHANGED <<pageVars, mounts, mounted, idRef, spawn, audioVars, ticks, clicks,
                   assigned, synthCalls, soundVars, callVars>>

\* ------------------------------------------------- randomBalloon on its own
\* a call randomBalloon(idSeed) in which Math.random() returns r[1], .., r[5]
CallInputs == [idSeed : 1..MaxCallId, r : [1..DrawsPerBalloon -> RandomResults]]

InitCall ==
    /\ InitPage
    /\ callArgs \in CallInputs
    /\ callResult = <<>>

CallRandomBalloon ==
    /\ callArgs # <<>>
    /\ callResult = <<>>
    /\ callResult' = <<randomBalloon(callArgs.idSeed, callArgs.r)>>
    /\ UNCHANGED <<pageVars, mounts, mounted, balloons, idRef, spawn, exiting,
                   audioVars, microtasks, ticks, clicks, histVars, soundVars, callArgs>>

\* ---------------------------------------------- the filter updater on its own
RECURSIVE Sublist(_, _)
\* the balloons of b whose position is in keep, in the order of b
Sublist(b, keep) ==
    IF b = <<>>
       THEN <<>>
       ELSE LET rest == Sublist(SubSeq(b, 1, Len(b) - 1), keep) IN
            IF Len(b) \in keep THEN Append(rest, b[Len(b)]) ELSE rest

\* live lists a layer can hold: what is left of the first balloons of its
\* burst after any removals
LiveLists ==
    {Sublist(SubSeq(Burst(1, ds), 1, MaxListLen), keep) :
        ds \in BurstDraws, keep \in SUBSET (1..MaxListLen)}

\* two remove requests, for the ids a and b (live, removed before, or never
\* given out), that reach the list in either order
RemoveInputs == [list : LiveLists, a : 1..(MaxListLen + 1), b : 1..(MaxListLen + 1)]

InitRemove ==
    /\ InitPage
    /\ callArgs \in RemoveInputs
    /\ callResult = <<>>

\* the two updaters applied in the order a, b and in the order b, a
CallRemoveBothOrders ==
    /\ callArgs # <<>>
    /\ callResult = <<>>
    /\ callResult' = <<Remove(Remove(callArgs.list, callArgs.a), callArgs.b),
                       Remove(Remove(callArgs.list, callArgs.b), callArgs.a)>>
    /\ UNCHANGED <<pageVars, mounts, mounted, balloons, idRef, spawn, exiting,
                   audioVars, microtasks, ticks, clicks, histVars, soundVars, callArgs>>

\* ------------------------------------------------------- specifications
\* Spec: at most MaxMounts layers, MaxTicks interval firings per layer and
\* MaxClicks clicks, on the buttons of balloons 1..MaxTarget, and at most
\* MaxEffort of these together; Math.random() gives one of BurstDraws in a
\* burst and one of ExploredDraws in an interval firing
Effort == mounts + ticks + clicks

Next ==
    \/ \E ds \in BurstDraws : PageLoad(ds)
    \/ \E ds \in BurstDraws :
          (balloonsOn \/ (mounts < MaxMounts /\ Effort < MaxEffort)) /\ ToggleBalloons(ds)
    \/ ToggleMuted
    \/ \E r \in ExploredDraws : ticks < MaxTicks /\ Effort < MaxEffort /\ SpawnTick(r)
    \/ \E id \in 1..MaxTarget : AnimationComplete(id)
    \/ \E id \in 1..MaxTarget : ExitComplete(id)
    \/ \E id \in 1..MaxTarget : clicks < MaxClicks /\ Effort < MaxEffort /\ Click(id)
    \/ \E p \in BagToSet(pending) : ResumeSettles(p)
    \/ ClickContinues

Spec == Init /\ [][Next]_vars

\* SpecCap: the first layer only, MaxCapTicks interval firings and MaxCapClicks
\* clicks, on the buttons of balloons 1..MaxCapTarget; Math.random() gives
\* TopDraws in every call of randomBalloon
NextCap ==
    \/ PageLoad([i \in 1..BurstSize |-> TopDraws])
    \/ balloonsOn /\ ToggleBalloons([i \in 1..BurstSize |-> TopDraws])
    \/ ToggleMuted
    \/ ticks < MaxCapTicks /\ SpawnTick(TopDraws)
    \/ \E id \in 1..MaxCapTarget : AnimationComplete(id)
    \/ \E id \in 1..MaxCapTarget : ExitComplete(id)
    \/ \E id \in 1..MaxCapTarget : clicks < MaxCapClicks /\ Click(id)
    \/ \E p \in BagToSet(pending) : ResumeSettles(p)
    \/ ClickContinues

SpecCap == Init /\ [][NextCap]_vars

\* SpecCall: one call of randomBalloon for every id in 1..MaxCallId and every
\* five results of Math.random() drawn from RandomResults
NextCall == CallRandomBalloon

SpecCall == InitCall /\ [][NextCall]_vars

\* SpecRemove: two remove requests on every list of LiveLists, in both orders
NextRemove == CallRemoveBothOrders

SpecRemove == InitRemove /\ [][NextRemove]_vars

\* ------------------------------------------------------------------ claims
IsTick == ticks' = ticks + 1

\* C1: the live list never holds more than 35 balloons.
C1_CapInvariant == Len(balloons) <= CapLimit

\* C2: an interval firing that finds exactly 35 live balloons leaves the live
\* list as it is.
C2_TickAtCapIsNoop ==
    [][(IsTick /\ Len(balloons) = CapLimit) => balloons' = balloons]_vars

\* C3: the ids of the balloons in the live list are pairwise distinct.
C3_LiveIdsDistinct ==
    \A i, j \in 1..Len(balloons) : i # j => balloons[i].id # balloons[j].id

\* the live list after a burst, an interval firing and a removal
C3_Witness ==
    /\ mounted
    /\ idRef = BurstSize + 2
    /\ Len(balloons) = BurstSize
    /\ removedBy # <<>>

\* C4: over the page session no id is given to two balloons.
C4_IdsNeverReassigned == \A k \in DOMAIN assigned : assigned[k] <= 1

\* C5: removing an id twice gives the same live list as removing it once, and
\* removing an id that is not in the live list changes nothing.
C5_RemoveIdempotent ==
    \A id \in 1..idRef :
        LET once == Remove(balloons, id) IN
        /\ Remove(once, id) = once
        /\ id \notin Ids(balloons) => once = balloons

\* balloon 1 was taken out by a handler and the exit of its button has issued
\* the second remove request for the same id
C5_Witness ==
    /\ mounted
    /\ 1 \in DOMAIN removedBy
    /\ 1 \notin exiting
    /\ balloons # <<>>

\* C6: within a layer, a balloon that has left the live list was taken out by
\* exactly one of the two handlers, even when both ran for its id, and a
\* balloon still in the live list by none.
C6_ExactlyOneCause ==
    \A k \in 1..(idRef - 1) :
        Cardinality(CausesOf(removedBy, k)) = (IF k \in Ids(balloons) THEN 0 ELSE 1)

\* balloon 1 was clicked and its ascent completed; the completion took it out
\* and the click handler has run to its end
C6_Witness ==
    /\ mounted
    /\ CountOf(synthCalls, 1) >= 1
    /\ CausesOf(removedBy, 1) = {"complete"}
    /\ pending = EmptyBag
    /\ microtasks = <<>>

\* C7: mounting the layer puts exactly 12 balloons in the live list, every
\* interval firing below the cap adds exactly one, and with no removal the
\* live list holds 12 + k balloons after k firings while 12 + k <= 35.
C7_SizeNoRemovals ==
    (mounted /\ removedBy = <<>> /\ BurstSize + ticks <= CapLimit)
        => Len(balloons) = BurstSize + ticks

C7_Step ==
    /\ (~mounted /\ mounted') => Len(balloons') = BurstSize
    /\ (IsTick /\ Len(balloons) < CapLimit) => Len(balloons') = Len(balloons) + 1

C7_BurstThenOnePerTick == []C7_SizeNoRemovals /\ [][C7_Step]_vars

\* five interval firings after the burst, nothing removed
C7_Witness ==
    /\ mounted
    /\ ticks = 5
    /\ removedBy = <<>>
    /\ Len(balloons) = BurstSize + 5

\* C8: switching the balloons off leaves the live list as it was.
C8_DisableKeepsBalloons ==
    [][(balloonsOn /\ ~balloonsOn') => balloons' = balloons]_vars

\* C9: once the click handler of a live balloon has returned, the balloon is
\* out of the live list, whether or not pop() has finished.
C9_RemoveBeforePopEnds ==
    \A p \in BagToSet(pending) :
        ~(mounted /\ p.gen = mounts /\ p.id \in Ids(balloons))

\* C10: pop() is called at most once for a balloon.
C10_OnePopPerBalloon == \A k \in DOMAIN synthCalls : synthCalls[k] <= 1

IsClick == clicks' = clicks + 1

\* the pop() a click started is over in the same step: it did not stop at
\* "await ctx.resume()"
PopOverAtOnce == pending' = pending

\* the pop() of p, which waited for ctx.resume(), runs to its end
Resumed(p) == CopiesIn(p, pending') < CopiesIn(p, pending)

\* the handler h is the one that goes on next, after those that wait already
GoesOnNext(h) == microtasks' = Append(microtasks, h)

\* the first handler that waits goes on after its "await pop()"
IsContinue == microtasks # <<>> /\ microtasks' = Tail(microtasks)

\* the handler that goes on belongs to the mounted layer
ContinuesLive == IsContinue /\ mounted /\ Head(microtasks).gen = mounts

\* while a handler waits to go on, the only steps are a handler going on and
\* the end of another pop()
NothingBeforeRemoval ==
    microtasks # <<>> =>
        \/ IsContinue
        \/ \E p \in BagToSet(pending) : Resumed(p) /\ GoesOnNext(Handler(p.gen, p.id))

\* C11: a click on a live balloon calls the synthesizer exactly once; when
\* its pop() is over (graph started, a call of the graph threw, the context
\* could not be created, resume() resolved or rejected) its handler goes on
\* before any other event, and when it has gone on the balloon is out of the
\* live list.
C11_PopAlwaysRemoves ==
    [][/\ \A id \in Ids(balloons) :
            (IsClick /\ CountOf(synthCalls', id) # CountOf(synthCalls, id))
                => /\ CountOf(synthCalls', id) = CountOf(synthCalls, id) + 1
                   /\ PopOverAtOnce => GoesOnNext(Handler(mounts, id))
       /\ \A p \in BagToSet(pending) : Resumed(p) => GoesOnNext(Handler(p.gen, p.id))
       /\ NothingBeforeRemoval
       /\ ContinuesLive => Head(microtasks).id \notin Ids(balloons')
      ]_vars

\* new AudioContext() threw in the only click so far, and the click took
\* balloon 1 out
C11_Witness ==
    /\ mounted
    /\ clicks = 1
    /\ contexts = <<>>
    /\ CausesOf(removedBy, 1) = {"pop"}

\* C12: no promise returned by pop() is ever rejected: a failure of
\* new AudioContext(), of ctx.resume() or of a call that builds or starts the
\* graph stays inside pop().
C12_PopNeverRejects == rejections = 0

\* a pop() of the mounted layer got its context running and then failed
\* before it set the gain
C12_Witness ==
    /\ mounted
    /\ ctxRef # 0
    /\ contexts[ctxRef] = "running"
    /\ CountOf(synthCalls, 1) >= 1
    /\ pending = EmptyBag
    /\ microtasks = <<>>
    /\ lastGain = 0
    /\ rejections = 0

\* C13: a click while muted calls the synthesizer once, its handler goes on
\* when its pop() is over, and a handler that goes on while muted takes its
\* balloon out, as while unmuted; the gain a pop() of the mounted layer sets
\* is the floor 0.0001 while muted and the volume 0.06 while unmuted.
C13_MutedPopOnlyGainDiffers ==
    [][/\ (IsClick /\ muted) =>
            \E id \in Ids(balloons) \cup exiting :
                /\ CountOf(synthCalls', id) = CountOf(synthCalls, id) + 1
                /\ PopOverAtOnce => GoesOnNext(Handler(mounts, id))
       /\ (ContinuesLive /\ muted) => Head(microtasks).id \notin Ids(balloons')
       /\ (mounted /\ mounted' /\ lastGain' # lastGain) =>
            lastGain' = (IF muted THEN MinGain ELSE Volume)
      ]_vars

\* muted, balloon 1 was clicked once, its pop() set the floor gain and the
\* click took the balloon out
C13_Witness ==
    /\ mounted
    /\ muted
    /\ lastGain = MinGain
    /\ CountOf(synthCalls, 1) = 1
    /\ CausesOf(removedBy, 1) = {"pop"}

\* C14: a balloon leaves the live list only through the completion of its
\* ascent or through a pop, also when the balloons are switched off while it
\* is in the air: every balloon that is in the live list before a step and not
\* after it was taken out by one of the two handlers.
C14_LeavesByCompletionOrPop ==
    [][\A id \in Ids(balloons) \ Ids(balloons') : CausesOf(removedBy', id) # {}]_vars

Balloons(b) == {b[i] : i \in 1..Len(b)}

\* C15: a balloon that is in the live list before and after a step has the
\* same size, hue, x, floatSec and sway after it as before, whatever the step
\* is (interval firing, removal of another balloon, click, mute).
C15_FieldsImmutable ==
    [][{b \in Balloons(balloons') : b.id \in Ids(balloons)} \subseteq Balloons(balloons)]_vars

\* balloon 2 has outlived an interval firing and the removal of balloon 1, and
\* is as randomBalloon made it in the burst
C15_Witness ==
    /\ mounted
    /\ ticks = 1
    /\ 1 \in DOMAIN removedBy
    /\ balloons # <<>>
    /\ balloons[1] = randomBalloon(2, TopDraws)

\* C16: over the page session at most one AudioContext is created: every pop
\* after the first, also after the balloons were switched off and on again,
\* uses the context the first pop created.
C16_OneContextPerSession == Len(contexts) <= 1

\* C17: once the layer has been taken down, no AudioContext that its pops
\* created is still open.
C17_ContextsClosedAfterTeardown ==
    (mounts > 0 /\ ~mounted) => \A i \in 1..Len(contexts) : contexts[i] = "closed"

\* C18: a balloon for which the synthesizer was called was taken out by the
\* click handler and not by the completion handler.
C18_SynthOnlyOnPopPath ==
    \A k \in DOMAIN synthCalls :
        synthCalls[k] > 0 => CausesOf(removedBy, k) \subseteq {"pop"}

\* lo <= v <= hi, for a double v and integers lo, hi
InRange(v, lo, hi) == AtMost(Whole(lo), v) /\ AtMost(v, Whole(hi))

\* C19: randomBalloon(id) returns, for every five results of Math.random(), a
\* balloon with the id it was given, size in [36, 72], x in [2, 98], hue an
\* integer in [0, 359], floatSec in [10, 20] and sway in [20, 80].
C19_FieldsInRange ==
    IF callResult = <<>>
       THEN callArgs # <<>> =>
                DOMAIN randomBalloon(callArgs.idSeed, callArgs.r)
                    = {"id", "x", "size", "hue", "floatSec", "sway"}
       ELSE LET b == callResult[1] IN
            /\ b.id = callArgs.idSeed
            /\ InRange(b.size, 36, 72)
            /\ InRange(b.x, 2, 98)
            /\ b.hue \in 0..359
            /\ InRange(b.floatSec, 10, 20)
            /\ InRange(b.sway, 20, 80)

\* randomBalloon has returned for the call in which every Math.random() gave
\* 1 - 2^-52: size and floatSec are rounded up to the ends of their ranges
C19_Witness ==
    /\ callResult # <<>>
    /\ callArgs.r = TopDraws
    /\ callResult[1].size = Whole(72)
    /\ callResult[1].floatSec = Whole(20)
    /\ callResult[1].hue = 359

\* C20: the step that switches the balloons on again leaves every balloon of
\* the live list in it, adds the 12 balloons of a new burst behind them, and
\* starts one interval, the only one running.
C20_ReenableAddsBurstAndTimer ==
    [][(~balloonsOn /\ balloonsOn') =>
            /\ Len(balloons') = Len(balloons) + BurstSize
            /\ SubSeq(balloons', 1, Len(balloons)) = balloons
            /\ spawn' = spawn + 1
            /\ spawn' = 1
      ]_vars

\* the balloons were switched off and on again: the second layer has its
\* burst and its interval, and the interval has not fired yet
C20_Witness ==
    /\ balloonsOn
    /\ mounted
    /\ mounts = 2
    /\ ticks = 0
    /\ Len(balloons) = BurstSize
    /\ spawn = 1

\* C21: an interval firing never stops the interval and adds at most one
\* balloon; below the cap it adds exactly one and hands out exactly one id,
\* however many earlier firings added nothing.
C21_NoCompensationAfterCap ==
    [][IsTick =>
            /\ spawn' = spawn
            /\ Len(balloons') \in {Len(balloons), Len(balloons) + 1}
            /\ idRef' - idRef = Len(balloons') - Len(balloons)
            /\ Len(balloons) < CapLimit => Len(balloons') = Len(balloons) + 1
      ]_vars

\* 26 firings and one removal: one firing found the list full and added
\* nothing, the removal made room, and a firing added one balloon (id 37)
C21_Witness ==
    /\ mounted
    /\ ticks = 26
    /\ idRef = 38
    /\ Cardinality(DOMAIN removedBy) = 1
    /\ Len(balloons) = 36
    /\ spawn = 1

\* C22: for every live list and every two ids a and b, removing a and then b
\* gives the same list as removing b and then a.
C22_RemovalsCommute == callResult # <<>> => callResult[1] = callResult[2]

\* balloons 1 and 3 were removed, in both orders, from the list of the
\* balloons 1, 2, 3, leaving balloon 2
C22_Witness ==
    /\ callResult # <<>>
    /\ callArgs.a = 1
    /\ callArgs.b = 3
    /\ Len(callArgs.list) = 3
    /\ Ids(callResult[1]) = {2}

\* C23: pops that overlap in time share one AudioContext: all the pops that
\* wait for ctx.resume() at the same moment wait on the same context.
C23_OverlappingPopsShareContext ==
    \A p, q \in BagToSet(pending) : p.ctx = q.ctx

\* C24: a balloon that is in the air when the balloons are switched off can
\* still be popped: right after the step its button is there and its balloon
\* is in the live list.
C24_PoppableAfterDisable ==
    [][(balloonsOn /\ ~balloonsOn') =>
            \A id \in Ids(balloons) : mounted' /\ id \in Ids(balloons')]_vars

\* the list b with the balloon at position k taken out
Without(b, k) == SubSeq(b, 1, k - 1) \o SubSeq(b, k + 1, Len(b))

\* a step of a layer that stays mounted, other than an interval firing: the
\* handlers of the buttons, pop() and the mute switch
IsRenderStep == mounted /\ mounted' /\ ~IsTick

\* C25: a step of the render layer leaves the live list as it is or takes
\* exactly one balloon out of it, the one whose id the handler asked for;
\* every other balloon keeps its place in the order and its fields.
C25_RemoveOnlyTakesThatId ==
    [][IsRenderStep =>
            \/ balloons' = balloons
            \/ \E k \in 1..Len(balloons) :
                  /\ balloons' = Without(balloons, k)
                  /\ balloons[k].id \in DOMAIN removedBy' \ DOMAIN removedBy
      ]_vars

\* the completion handler took balloon 1 out, the exit of its button asked
\* for the same id again, and balloons 2..12 are where they were
C25_Witness ==
    /\ mounted
    /\ ticks = 0
    /\ CausesOf(removedBy, 1) = {"complete"}
    /\ exiting = {}
    /\ Len(balloons) = BurstSize - 1
    /\ balloons[1].id = 2

\* a step of the balloon subsystem: the burst of the first render, an
\* interval firing, a click, a pop() that goes on after resume(), a click
\* handler that goes on after pop(), a removal or the end of an exit
\* transition
IsSubsystemStep ==
    \/ mounts = 0 /\ mounts' = 1
    \/ IsTick
    \/ IsClick
    \/ pending' # pending
    \/ microtasks' # microtasks
    \/ mounted /\ mounted' /\ (balloons' # balloons \/ exiting' # exiting)

\* C26: no step of the balloon subsystem changes balloonsOn or muted.
C26_FlagsReadOnly ==
    [][IsSubsystemStep => (balloonsOn' = balloonsOn /\ muted' = muted)]_vars

\* the first layer has had its burst, an interval firing, a click and a
\* removal, and both flags are as Portfolio created them
C26_Witness ==
    /\ mounts = 1
    /\ mounted
    /\ ticks = 1
    /\ clicks = 1
    /\ removedBy # <<>>
    /\ balloonsOn
    /\ ~muted

C27_TimerIffEnabledAndMounted ==
    /\ spawn \in {0, 1}
    /\ spawn = 1 <=> (balloonsOn /\ mounted)

C27_NoGrowthWhileDisabled ==
    (~balloonsOn /\ ~balloonsOn') => Len(balloons') <= Len(balloons)

\* C27: there is never more than one interval, there is one exactly while the
\* balloons are switched on and the layer is mounted, and while they are
\* switched off the live list does not grow.
C27_OneTimerWhileEnabled ==
    []C27_TimerIffEnabledAndMounted /\ [][C27_NoGrowthWhileDisabled]_vars

\* the balloons were switched off, on and off again: the interval of the
\* second layer has been cleared too
C27_Witness ==
    /\ mounts = 2
    /\ ~balloonsOn
    /\ ~mounted
    /\ spawn = 0

\* C28: whatever the order of interval firings, completions and pops, the
\* live list of a layer holds, once each, exactly the balloons the layer has
\* created and no handler has taken out.
C28_NoLostUpdate ==
    /\ Ids(balloons) = {k \in 1..(idRef - 1) : CausesOf(removedBy, k) = {}}
    /\ Len(balloons) = Cardinality(Ids(balloons))

\* the click on balloon 1 waited for a resume() that was rejected, the
\* interval fired once, and the handler then took the balloon out: the list
\* holds balloons 2..13
C28_Witness ==
    /\ mounted
    /\ ticks = 1
    /\ ctxRef # 0
    /\ contexts[ctxRef] = "suspended"
    /\ pending = EmptyBag
    /\ microtasks = <<>>
    /\ CausesOf(removedBy, 1) = {"pop"}
    /\ Len(balloons) = BurstSize

\* C29: within a layer, an id that a handler has taken out of the live list
\* is not in the live list after any later step.
C29_RemovedIdStaysOut ==
    [][(mounted /\ mounted') =>
            \A id \in DOMAIN removedBy : id \notin Ids(balloons')]_vars

\* balloon 1 was taken out, the exit of its button is over, and the interval
\* has fired since the layer was mounted: the new balloon has id 13
C29_Witness ==
    /\ mounted
    /\ 1 \in DOMAIN removedBy
    /\ exiting = {}
    /\ ticks = 1
    /\ Ids(balloons) = 2..(BurstSize + 1)

C30_Ordered ==
    /\ \A i \in 1..(Len(balloons) - 1) : balloons[i].id < balloons[i + 1].id
    /\ \A i \in 1..Len(balloons) : balloons[i].id < idRef

C30_CounterGrows == (mounted /\ mounted') => idRef' >= idRef

\* C30: in a mounted layer the ids of the live list increase strictly from
\* front to back, idRef.current is greater than all of them, and
\* idRef.current never decreases.
C30_OrderedAndCounterAhead == []C30_Ordered /\ [][C30_CounterGrows]_vars

\* after the burst and one interval firing the list ends with balloon 13 and
\* the counter stands at 14
C30_Witness ==
    /\ mounted
    /\ idRef = BurstSize + 2
    /\ Len(balloons) = BurstSize + 1
    /\ balloons[Len(balloons)].id = BurstSize + 1
====
